---------------------------- MODULE Spec2Model ----------------------------
(***************************************************************************)
(* A model of parse_gam/scripts/parse_prediction.py: the reconstruction of *)
(* a backgammon board state from YOLO detections.                          *)
(*                                                                         *)
(* Numbers.  The program computes in binary floating point; the model      *)
(* computes in exact rational arithmetic over an integer grid.  A raw      *)
(* detection holds integer x_center, y_center, width, height; its polygon  *)
(* is kept in half units (x_center - width/2 is stored as                  *)
(* 2*x_center - width).  A projected detection keeps each coordinate as a  *)
(* numerator over its board's denominator (x_center' = xn/xd with          *)
(* xd = 2*width_board).  Comparisons with 0.8, 0.07 and 0.5 are made by    *)
(* cross multiplication.                                                   *)
(***************************************************************************)
EXTENDS Integers, Sequences, FiniteSets, TLC

VARIABLES
    pc,              \* position of the running script
    predictions,     \* parse_single_prediction: the frame read from the file
    boards,          \* parse_board_state: the board rows after deduplication
    projected,       \* parse_board_state: the projected checker rows
    state_board_1,   \* parse_board_state: local state of board_index 0
    state_board_2,   \* parse_board_state: local state of board_index 1
    board_state,     \* parse_single_prediction: the record written out
    synth_clas,      \* the classes of the 24 checkers of a synthetic frame
    gdf,             \* deduplicate_gdf: the frame passed in
    iou_threshold,   \* deduplicate_gdf: the threshold passed in, <<num, den>>
    keep,            \* deduplicate_gdf: the kept positions
    result,          \* deduplicate_gdf: the frame returned
    result2,         \* deduplicate_gdf applied to its own result
    dir,             \* main: the frames of the predictions directory
    next,            \* main: the position of the directory iteration
    outputs          \* main: the records written, per frame

frameVars == <<predictions, boards, projected, state_board_1, state_board_2,
               board_state, synth_clas>>
dedupVars == <<gdf, iou_threshold, keep, result, result2>>
batchVars == <<dir, next, outputs>>
vars == <<pc, frameVars, dedupVars, batchVars>>

---------------------------------------------------------------------------
(* CLASS_MAPPING *)
BOARD_CLASS == 0
CHECKER_P1_CLASS == 1
CHECKER_P2_CLASS == 2
DIE_CLASS == 3
POINT_CLASS == 4

(* iou_threshold: float = 0.8, as the fraction 4/5 *)
IOU_THRESHOLD_NUM == 4
IOU_THRESHOLD_DEN == 5

(* CHECKER_POINT_X_TOLERANCE = 0.07, as the fraction 7/100 *)
TOLERANCE_NUM == 7
TOLERANCE_DEN == 100

Abs(n) == IF n < 0 THEN -n ELSE n
Min(a, b) == IF a < b THEN a ELSE b
Max(a, b) == IF a > b THEN a ELSE b

RECURSIVE SumSeq(_)
SumSeq(s) == IF s = <<>> THEN 0 ELSE Head(s) + SumSeq(Tail(s))

(* An assignment to a local: the value is computed once, bound to the name
   and used by what follows. *)
Assign(value, Rest(_)) == CHOOSE r \in {Rest(x) : x \in {value}} : TRUE

(* gdf[mask].reset_index(drop=True): the rows that satisfy P, in order *)
Filter(s, P(_)) == SelectSeq(s, P)

---------------------------------------------------------------------------
(* Geometry *)

(* to_polygon on a raw detection: the rectangle, in half units *)
to_polygon(x) ==
    [x1 |-> 2 * x.x_center - x.width,  x2 |-> 2 * x.x_center + x.width,
     y1 |-> 2 * x.y_center - x.height, y2 |-> 2 * x.y_center + x.height]

PolygonArea(p) == (p.x2 - p.x1) * (p.y2 - p.y1)

(* p1.intersection(p2).area *)
IntersectionArea(p1, p2) ==
    Max(0, Min(p1.x2, p2.x2) - Max(p1.x1, p2.x1))
        * Max(0, Min(p1.y2, p2.y2) - Max(p1.y1, p2.y1))

(* p1.union(p2).area *)
UnionArea(p1, p2) == PolygonArea(p1) + PolygonArea(p2) - IntersectionArea(p1, p2)

(* iou(p1, p2) > num/den, where iou is inter / union if union > 0 else 0 *)
IouExceeds(p1, p2, thr) ==
    /\ UnionArea(p1, p2) > 0
    /\ IntersectionArea(p1, p2) * thr[2] > thr[1] * UnionArea(p1, p2)

---------------------------------------------------------------------------
(* deduplicate_gdf *)

(* a variant of the inner loop that drops on iou >= threshold *)
DroppedByAtLeast(g, thr, i, dropped) ==
    dropped \cup {j \in (i + 1)..Len(g) :
                    /\ j \notin dropped
                    /\ UnionArea(g[i].geometry, g[j].geometry) > 0
                    /\ IntersectionArea(g[i].geometry, g[j].geometry) * thr[2]
                         >= thr[1] * UnionArea(g[i].geometry, g[j].geometry)}

(* a variant of the inner loop that looks at the next row only *)
DroppedByNextOnly(g, thr, i, dropped) ==
    dropped \cup {j \in (i + 1)..Min(i + 1, Len(g)) :
                    j \notin dropped /\ IouExceeds(g[i].geometry, g[j].geometry, thr)}

(* the inner loop: the later rows the kept row i drops *)
DroppedBy(g, thr, i, dropped) ==
    dropped \cup {j \in (i + 1)..Len(g) :
                    j \notin dropped /\ IouExceeds(g[i].geometry, g[j].geometry, thr)}

(* the outer loop, from row i on: the kept positions *)
RECURSIVE DedupLoop(_, _, _, _, _)
DedupLoop(g, thr, i, kept, dropped) ==
    IF i > Len(g) THEN kept
    ELSE IF i \in dropped THEN DedupLoop(g, thr, i + 1, kept, dropped)
    ELSE DedupLoop(g, thr, i + 1, Append(kept, i), DroppedBy(g, thr, i, dropped))

DedupKeep(g, thr) == Assign(g, LAMBDA rows : DedupLoop(rows, thr, 1, <<>>, {}))

(* gdf.loc[keep].reset_index(drop=True) *)
LocKeep(g, kept) == [k \in 1..Len(kept) |-> g[kept[k]]]

deduplicate_gdf(g, thr) ==
    Assign(g, LAMBDA rows :
        Assign(DedupKeep(rows, thr), LAMBDA kept :
            Assign(LocKeep(rows, kept), LAMBDA out : SubSeq(out, 1, Len(out)))))

DefaultThreshold == <<IOU_THRESHOLD_NUM, IOU_THRESHOLD_DEN>>

---------------------------------------------------------------------------
(* parse_yolo_predictions: one row per line of the file, with its geometry *)
parse_yolo_predictions(file) ==
    [k \in 1..Len(file) |->
        [clas |-> file[k].clas, x_center |-> file[k].x_center,
         y_center |-> file[k].y_center, width |-> file[k].width,
         height |-> file[k].height, conf |-> file[k].conf,
         geometry |-> to_polygon(file[k])]]

(* sort_values(by="x_center"): insertion into a sorted sequence, equal keys
   keeping their order *)
RECURSIVE InsertByX(_, _)
InsertByX(sorted, row) ==
    IF sorted = <<>> THEN <<row>>
    ELSE IF row.x_center < Head(sorted).x_center THEN <<row>> \o sorted
    ELSE <<Head(sorted)>> \o InsertByX(Tail(sorted), row)

RECURSIVE SortByX(_)
SortByX(rows) ==
    IF rows = <<>> THEN <<>>
    ELSE Assign(SortByX(SubSeq(rows, 1, Len(rows) - 1)),
                LAMBDA sorted : InsertByX(sorted, rows[Len(rows)]))

IsBoard(row) == row.clas = BOARD_CLASS

(* boards.index.names = ["board_index"]; boards.reset_index(): the position
   in the sorted frame becomes the column board_index *)
WithBoardIndex(rows) ==
    [k \in 1..Len(rows) |->
        [clas |-> rows[k].clas, x_center |-> rows[k].x_center,
         y_center |-> rows[k].y_center, width |-> rows[k].width,
         height |-> rows[k].height, conf |-> rows[k].conf,
         geometry |-> rows[k].geometry, board_index |-> k - 1]]

(* parse_board_state, lines 149-157: the board rows, sorted, numbered and
   then deduplicated *)
LocateBoards(preds) ==
    Assign(SortByX(Filter(preds, IsBoard)), LAMBDA sorted :
        deduplicate_gdf(WithBoardIndex(sorted), DefaultThreshold))

(* the predicate of sjoin: the two geometries intersect (touching counts) *)
Intersects(p1, p2) ==
    /\ p1.x1 <= p2.x2 /\ p2.x1 <= p1.x2
    /\ p1.y1 <= p2.y2 /\ p2.y1 <= p1.y2

(* project_onto_board: each value as <<numerator, denominator>>;
   x_center = (x_center_pred - x_center_board + width_board/2) / width_board *)
project_onto_board(board, pred) ==
    [clas |-> pred.clas, conf |-> pred.conf, board_index |-> board.board_index,
     x_center |-> <<2 * (pred.x_center - board.x_center) + board.width, 2 * board.width>>,
     y_center |-> <<2 * (pred.y_center - board.y_center) + board.height, 2 * board.height>>,
     width |-> <<pred.width, board.width>>,
     height |-> <<pred.height, board.height>>]

(* to_polygon on a projected row, in units of 1/(2*width_board) and
   1/(2*height_board) *)
to_polygon_projected(x) ==
    [x1 |-> x.x_center[1] - x.width[1],  x2 |-> x.x_center[1] + x.width[1],
     y1 |-> x.y_center[1] - x.height[1], y2 |-> x.y_center[1] + x.height[1]]

WithProjectedGeometry(x) ==
    [clas |-> x.clas, conf |-> x.conf, board_index |-> x.board_index,
     x_center |-> x.x_center, y_center |-> x.y_center,
     width |-> x.width, height |-> x.height,
     geometry |-> to_polygon_projected(x)]

(* boards.sjoin(predictions, how="inner").apply(project_onto_board): for each
   board, the predictions that intersect it, in the order of the file *)
RECURSIVE SJoinProject(_, _)
SJoinProject(bs, preds) ==
    IF bs = <<>> THEN <<>>
    ELSE LET b == Head(bs)
             Hit(p) == Intersects(b.geometry, p.geometry)
             hits == Filter(preds, Hit)
         IN  [k \in 1..Len(hits) |-> project_onto_board(b, hits[k])]
                 \o SJoinProject(Tail(bs), preds)

IsChecker(row) == row.clas \in {CHECKER_P1_CLASS, CHECKER_P2_CLASS}

(* parse_board_state, lines 164-177 *)
ProjectCheckers(bs, preds) ==
    LET kept == Filter(SJoinProject(bs, preds), IsChecker)
    IN  [k \in 1..Len(kept) |-> WithProjectedGeometry(kept[k])]

---------------------------------------------------------------------------
(* parse_half_board_state *)

HALVES == {"UPPER", "LOWER"}
H_POINTS == 0..5

(* a variant with a tolerance of 0.09 *)
InColumnWide(row, h) ==
    100 * Abs(12 * row.x_center[1] - (2 * h + 1) * row.x_center[2])
        < 9 * 12 * row.x_center[2]

(* (gdf.x_center - h_pos).abs() < CHECKER_POINT_X_TOLERANCE, with
   h_pos = h/6 + 1/12 = (2h+1)/12 *)
InColumn(row, h) ==
    TOLERANCE_DEN * Abs(12 * row.x_center[1] - (2 * h + 1) * row.x_center[2])
        < TOLERANCE_NUM * 12 * row.x_center[2]

(* gdf.y_center > 0.5 (LOWER), gdf.y_center < 0.5 (UPPER) *)
InHalf(row, half) ==
    IF half = "LOWER" THEN 2 * row.y_center[1] > row.y_center[2]
    ELSE 2 * row.y_center[1] < row.y_center[2]

(* d: the rows of one half and column *)
SelectBucket(g, half, h) ==
    LET Sel(row) == InHalf(row, half) /\ InColumn(row, h)
    IN  Filter(g, Sel)

(* a variant that mirrors the LOWER columns *)
PointIndexMirrored(half, h) == IF half = "LOWER" THEN 1 + h ELSE 7 + h

(* point_index *)
PointIndex(half, h) == IF half = "LOWER" THEN 6 - h ELSE 7 + h

ClassCount(d, c) == Cardinality({k \in 1..Len(d) : d[k].clas = c})

(* a variant in which the last of the largest groups wins *)
MajorityClassKeepLast(d) ==
    IF d = <<>> THEN CHECKER_P2_CLASS
    ELSE LET classes == {d[k].clas : k \in 1..Len(d)}
         IN  CHOOSE c \in classes : \A c2 \in classes :
                 \/ ClassCount(d, c) > ClassCount(d, c2)
                 \/ ClassCount(d, c) = ClassCount(d, c2) /\ c >= c2

(* d.groupby("clas").count().reset_index().nlargest(1, "board_index")["clas"]:
   the groups come sorted by clas, and nlargest (keep="first") takes the
   first of the largest groups; no group at all gives CHECKER_P2 *)
MajorityClass(d) ==
    IF d = <<>> THEN CHECKER_P2_CLASS
    ELSE LET classes == {d[k].clas : k \in 1..Len(d)}
         IN  CHOOSE c \in classes : \A c2 \in classes :
                 \/ ClassCount(d, c) > ClassCount(d, c2)
                 \/ ClassCount(d, c) = ClassCount(d, c2) /\ c <= c2

(* a variant that counts the rows before deduplication *)
BucketValueNoDedup(d) ==
    IF MajorityClass(d) = CHECKER_P2_CLASS THEN Len(d) ELSE -Len(d)

(* lines 126-136: the signed count of one bucket *)
BucketValue(d) ==
    LET class_index == MajorityClass(d)
        num_checkers == Len(deduplicate_gdf(d, DefaultThreshold))
    IN  IF class_index = CHECKER_P2_CLASS THEN num_checkers ELSE -num_checkers

(* the dictionary state: one entry per half and column, under its
   point_index *)
HalfBoardState(rows) ==
    LET keys == {PointIndex(half, h) : half \in HALVES, h \in H_POINTS}
    IN  [p \in keys |->
            LET hh == CHOOSE hh \in HALVES \X H_POINTS : PointIndex(hh[1], hh[2]) = p
            IN  Assign(SelectBucket(rows, hh[1], hh[2]), LAMBDA d : BucketValue(d))]

parse_half_board_state(g) ==
    Assign(g, LAMBDA rows :
        Assign(HalfBoardState(rows), LAMBDA state : [p \in DOMAIN state |-> state[p]]))

---------------------------------------------------------------------------
(* parse_board_state, lines 181-196 *)

OnBoard(proj, b) ==
    LET On(row) == row.board_index = b
    IN  Filter(proj, On)

(* a variant that takes Point_7..12 from the right board *)
WireSwapped(x, s1, s2) ==
    IF x > 0 /\ x <= 6 THEN s2[x]
    ELSE IF x > 6 /\ x <= 12 THEN s2[x - 6]
    ELSE IF x > 12 /\ x <= 18 THEN s1[x - 6]
    ELSE s2[x - 12]

(* the merge of the two states: the value of Point_x *)
Wire(x, s1, s2) ==
    IF x > 0 /\ x <= 6 THEN s2[x]
    ELSE IF x > 6 /\ x <= 12 THEN s1[x - 6]
    ELSE IF x > 12 /\ x <= 18 THEN s1[x - 6]
    ELSE s2[x - 12]

FullState(s1, s2) ==
    [status |-> "VALID", points |-> [x \in 1..24 |-> Wire(x, s1, s2)]]

Unparseable == [status |-> "UNPARSEABLE"]

(* a variant of the test at line 170 that lets an empty frame through *)
NoCheckersNever(proj) == FALSE

(* projected.shape[0] == 0 *)
NoCheckers(proj) == Len(proj) = 0

(* parse_board_state and lines 204-210 of parse_single_prediction: the
   board_state of a parsed file *)
BoardStateOf(preds) ==
    Assign(LocateBoards(preds), LAMBDA bs :
        IF Len(bs) # 2 THEN Unparseable
        ELSE Assign(ProjectCheckers(bs, preds), LAMBDA proj :
            IF NoCheckers(proj) THEN Unparseable
            ELSE Assign(parse_half_board_state(OnBoard(proj, 0)), LAMBDA s1 :
                 Assign(parse_half_board_state(OnBoard(proj, 1)), LAMBDA s2 :
                     FullState(s1, s2)))))

(* parse_single_prediction: the record written for a file *)
parse_single_prediction(file) ==
    Assign(parse_yolo_predictions(file), LAMBDA preds : BoardStateOf(preds))

---------------------------------------------------------------------------
(* The prediction files given to the script *)

MaxCheckers == 3

Det(c, x, y, w, h) ==
    [clas |-> c, x_center |-> x, y_center |-> y, width |-> w, height |-> h,
     conf |-> 90]

(* Boards: a left one (x from 0 to 12), a right one (14 to 26), a near copy
   of each shifted by one unit (IoU 110/130 with the original) and a third
   one further right (28 to 40); all span y from 0 to 10.  The file lists
   them out of x order. *)
BoardLeft == Det(BOARD_CLASS, 6, 5, 12, 10)
BoardLeftCopy == Det(BOARD_CLASS, 7, 5, 12, 10)
BoardRight == Det(BOARD_CLASS, 20, 5, 12, 10)
BoardRightCopy == Det(BOARD_CLASS, 21, 5, 12, 10)
BoardThird == Det(BOARD_CLASS, 34, 5, 12, 10)
BoardUniverse == <<BoardRightCopy, BoardThird, BoardLeft, BoardRight, BoardLeftCopy>>

(* Other detections, placed with respect to the left and right boards *)
CheckerUniverse ==
    { Det(CHECKER_P1_CLASS, 1, 8, 2, 2),   \* left board, column 0, LOWER
      Det(CHECKER_P2_CLASS, 1, 8, 2, 2),   \* the same box, other player
      Det(CHECKER_P2_CLASS, 1, 6, 2, 2),   \* same bucket, no overlap
      Det(CHECKER_P2_CLASS, 25, 2, 2, 2),  \* right board, column 5, UPPER
      Det(CHECKER_P1_CLASS, 13, 5, 1, 2),  \* between the boards
      Det(DIE_CLASS, 3, 8, 2, 2),          \* not a checker
      Det(CHECKER_P2_CLASS, 2, 8, 2, 2),   \* between columns 0 and 1
      Det(CHECKER_P1_CLASS, 3, 5, 2, 2),   \* column 1, y_center' = 0.5
      Det(CHECKER_P2_CLASS, 13, 2, 4, 2) } \* across both boards

BoardFiles ==
    { LET In(b) == b \in S IN SelectSeq(BoardUniverse, In) :
        S \in SUBSET {BoardUniverse[k] : k \in 1..Len(BoardUniverse)} }

CheckerFiles == UNION { [1..n -> CheckerUniverse] : n \in 0..MaxCheckers }

(* a prediction file holds at least one line *)
Files == { b \o c : b \in BoardFiles, c \in CheckerFiles } \ {<<>>}

Idle == <<>>

FrameIdle ==
    /\ predictions = Idle /\ boards = Idle /\ projected = Idle
    /\ state_board_1 = Idle /\ state_board_2 = Idle /\ board_state = Idle
    /\ synth_clas = Idle

DedupIdle ==
    /\ gdf = Idle /\ iou_threshold = Idle /\ keep = Idle
    /\ result = Idle /\ result2 = Idle

BatchIdle == dir = Idle /\ next = 0 /\ outputs = Idle

---------------------------------------------------------------------------
(* Spec: parse_single_prediction on one file (main, line 226), by outcome.
   boards, projected, state_board_1 and state_board_2 record the locals of
   parse_board_state. *)

Init ==
    /\ pc = "start"
    /\ predictions \in { parse_yolo_predictions(f) : f \in Files }
    /\ boards = Idle /\ projected = Idle
    /\ state_board_1 = Idle /\ state_board_2 = Idle /\ board_state = Idle
    /\ synth_clas = Idle
    /\ DedupIdle /\ BatchIdle

(* lines 159-161 and 206-208 *)
ParseNotTwoBoards ==
    /\ pc = "start"
    /\ Len(LocateBoards(predictions)) # 2
    /\ boards' = LocateBoards(predictions)
    /\ board_state' = Unparseable
    /\ pc' = "done"
    /\ UNCHANGED <<predictions, projected, state_board_1, state_board_2, synth_clas,
                   dedupVars, batchVars>>

(* lines 170-172 and 206-208 *)
ParseNoCheckers ==
    /\ pc = "start"
    /\ Len(LocateBoards(predictions)) = 2
    /\ NoCheckers(ProjectCheckers(LocateBoards(predictions), predictions))
    /\ boards' = LocateBoards(predictions)
    /\ projected' = ProjectCheckers(boards', predictions)
    /\ board_state' = Unparseable
    /\ pc' = "done"
    /\ UNCHANGED <<predictions, state_board_1, state_board_2, synth_clas,
                   dedupVars, batchVars>>

(* lines 175-198 and 210 *)
ParseValid ==
    /\ pc = "start"
    /\ Len(LocateBoards(predictions)) = 2
    /\ ~NoCheckers(ProjectCheckers(LocateBoards(predictions), predictions))
    /\ boards' = LocateBoards(predictions)
    /\ projected' = ProjectCheckers(boards', predictions)
    /\ state_board_1' = parse_half_board_state(OnBoard(projected', 0))
    /\ state_board_2' = parse_half_board_state(OnBoard(projected', 1))
    /\ board_state' = FullState(state_board_1', state_board_2')
    /\ pc' = "done"
    /\ UNCHANGED <<predictions, synth_clas, dedupVars, batchVars>>

Next == ParseNotTwoBoards \/ ParseNoCheckers \/ ParseValid

Spec == Init /\ [][Next]_vars

---------------------------------------------------------------------------
(* Properties of Spec *)

Done == pc = "done"
Valid == Done /\ board_state.status = "VALID"

LocalState(b) == IF b = 0 THEN state_board_1 ELSE state_board_2

(* the rows of one position bucket of board b, from the projected rows *)
BucketRows(b, half, h) == SelectBucket(OnBoard(projected, b), half, h)

BucketIds == {0, 1} \X HALVES \X H_POINTS

(* no checker-class prediction of the frame intersects a surviving board *)
NoCheckerOnBoards ==
    \A i \in 1..Len(boards), k \in 1..Len(predictions) :
        IsChecker(predictions[k])
            => ~Intersects(boards[i].geometry, predictions[k].geometry)

(* C1: a frame is written as {status: UNPARSEABLE}, with no Point field,
   exactly when the boards that survive deduplication are not two or no
   checker-class detection is left on a board; every other frame is written
   as VALID with an integer for each of Point_1..Point_24. *)
C1_AllOrNothing ==
    Done =>
        IF Len(boards) # 2 \/ NoCheckerOnBoards
        THEN board_state = [status |-> "UNPARSEABLE"]
        ELSE /\ DOMAIN board_state = {"status", "points"}
             /\ board_state.status = "VALID"
             /\ DOMAIN board_state.points = 1..24
             /\ \A x \in 1..24 : board_state.points[x] \in Int

(* three raw boards of which two survive, checkers in the frame but none on
   a board: written as UNPARSEABLE *)
C1_Witness ==
    /\ Done
    /\ Len(Filter(predictions, IsBoard)) = 3 /\ Len(boards) = 2
    /\ \E k \in 1..Len(predictions) : IsChecker(predictions[k])
    /\ NoCheckerOnBoards
    /\ board_state.status = "UNPARSEABLE"

(* C2: whenever exactly two boards survive deduplication, the leftmost
   carries board_index 0 and the rightmost board_index 1, so that the
   checkers projected onto the rightmost survivor are the ones aggregated as
   board-index-1. *)
C2_SurvivorsIndexed01 ==
    (Done /\ Len(boards) = 2) =>
        /\ boards[1].x_center <= boards[2].x_center
        /\ boards[1].board_index = 0
        /\ boards[2].board_index = 1
        /\ board_state.status = "VALID" =>
              state_board_2 =
                  parse_half_board_state(OnBoard(projected, boards[2].board_index))

(* the value the merge gives Point_x when every local value is replaced by
   the pair <<board_index, local position>> it comes from *)
WireSource(x) ==
    Wire(x, [l \in 1..12 |-> <<0, l>>], [l \in 1..12 |-> <<1, l>>])

WiringIsOneToOne ==
    /\ \A x \in 1..6 : WireSource(x) = <<1, x>>
    /\ \A x \in 7..12 : WireSource(x) = <<0, x - 6>>
    /\ \A x \in 13..18 : WireSource(x) = <<0, x - 6>>
    /\ \A x \in 19..24 : WireSource(x) = <<1, x - 12>>
    /\ \A b \in {0, 1}, l \in 1..12 :
          Cardinality({x \in 1..24 : WireSource(x) = <<b, l>>}) = 1

(* C5: in a VALID state Point_1..6 are board-index-1's Point_1..6, Point_7..12
   board-index-0's Point_1..6, Point_13..18 board-index-0's Point_7..12 and
   Point_19..24 board-index-1's Point_7..12; each canonical position takes
   one local position and each local position of each board is used once. *)
C5_Wiring ==
    /\ WiringIsOneToOne
    /\ Valid =>
          /\ \A x \in 1..6 : board_state.points[x] = state_board_2[x]
          /\ \A x \in 7..12 : board_state.points[x] = state_board_1[x - 6]
          /\ \A x \in 13..18 : board_state.points[x] = state_board_1[x - 6]
          /\ \A x \in 19..24 : board_state.points[x] = state_board_2[x - 12]

(* a VALID state with a checker counted on each board: Point_12 comes from
   the left board's Point_6 and Point_24 from the right board's Point_12 *)
C5_Witness ==
    /\ Valid
    /\ state_board_1[6] # 0 /\ state_board_2[6] = 0
    /\ state_board_2[12] # 0 /\ state_board_1[12] = 0
    /\ board_state.points[12] = state_board_1[6]
    /\ board_state.points[24] = state_board_2[12]

(* C8: the value of a position is +count when CHECKER_P2 has the majority
   of the rows selected for it and -count otherwise, count being the number
   of selected rows of either class that survive deduplication; an empty
   bucket gives 0. *)
C8_MajoritySign ==
    Valid =>
        \A id \in BucketIds :
            LET d == BucketRows(id[1], id[2], id[3])
                count == Len(deduplicate_gdf(d, DefaultThreshold))
                val == LocalState(id[1])[PointIndex(id[2], id[3])]
            IN  /\ val = IF ClassCount(d, CHECKER_P2_CLASS) > ClassCount(d, CHECKER_P1_CLASS)
                         THEN count ELSE -count
                /\ d = <<>> => val = 0

(* a bucket of three rows, two of them one piece seen twice under both
   classes: CHECKER_P2 has the majority and the value is +2 *)
C8_Witness ==
    /\ Valid
    /\ \E id \in BucketIds :
          LET d == BucketRows(id[1], id[2], id[3])
          IN  /\ Len(d) = 3
              /\ ClassCount(d, CHECKER_P1_CLASS) = 1
              /\ ClassCount(d, CHECKER_P2_CLASS) = 2
              /\ LocalState(id[1])[PointIndex(id[2], id[3])] = 2

TiedBucket(id) ==
    LET d == BucketRows(id[1], id[2], id[3])
    IN  /\ d # <<>>
        /\ ClassCount(d, CHECKER_P1_CLASS) = ClassCount(d, CHECKER_P2_CLASS)

(* C9: when the CHECKER_P1 and CHECKER_P2 rows of a bucket tie in number,
   CHECKER_P2 wins the tie and the value of the bucket is positive. *)
C9_TieGoesToP2 ==
    Valid =>
        \A id \in BucketIds :
            TiedBucket(id) => LocalState(id[1])[PointIndex(id[2], id[3])] > 0

(* C9 as amended: when the rows of a bucket tie, CHECKER_P1 (the class that
   sorts first) wins the tie and the value of the bucket is negative. *)
C9_TieGoesToP1 ==
    Valid =>
        \A id \in BucketIds :
            TiedBucket(id) => LocalState(id[1])[PointIndex(id[2], id[3])] < 0

(* a bucket of one CHECKER_P1 and one CHECKER_P2 row that do not overlap:
   the value is -2 *)
C9_Witness ==
    /\ Valid
    /\ \E id \in BucketIds :
          /\ TiedBucket(id)
          /\ Len(BucketRows(id[1], id[2], id[3])) = 2
          /\ LocalState(id[1])[PointIndex(id[2], id[3])] = -2

(* on a grid of 1/600, from x_center' = -0.1 to 1.1, no x lies in the
   windows of two columns *)
WindowsDisjoint ==
    \A xn \in (-60)..660 :
        Cardinality({h \in H_POINTS : InColumn([x_center |-> <<xn, 600>>], h)}) <= 1

BucketsOf(row) ==
    {hh \in HALVES \X H_POINTS : InHalf(row, hh[1]) /\ InColumn(row, hh[2])}

(* C10: within a board every projected checker is selected for at most one
   of the 12 buckets, and the absolute values of the board's 12 positions
   sum to no more than the number of checkers projected onto it. *)
C10_AtMostOneBucket ==
    /\ WindowsDisjoint
    /\ Valid =>
          \A b \in {0, 1} :
              LET rows == OnBoard(projected, b)
              IN  /\ \A k \in 1..Len(rows) : Cardinality(BucketsOf(rows[k])) <= 1
                  /\ SumSeq([l \in 1..12 |-> Abs(LocalState(b)[l])]) <= Len(rows)

(* a board with one checker in a bucket, one between two columns and one at
   y_center' = 0.5: three projected rows, one counted *)
C10_Witness ==
    /\ Valid
    /\ \E b \in {0, 1} :
          LET rows == OnBoard(projected, b)
          IN  /\ Len(rows) = 3
              /\ \E k \in 1..3 : Cardinality(BucketsOf(rows[k])) = 1
              /\ \E k \in 1..3 : BucketsOf(rows[k]) = {}
                                  /\ 2 * rows[k].y_center[1] = rows[k].y_center[2]
              /\ \E k \in 1..3 : BucketsOf(rows[k]) = {}
                                  /\ 2 * rows[k].y_center[1] # rows[k].y_center[2]
              /\ SumSeq([l \in 1..12 |-> Abs(LocalState(b)[l])]) = 1

---------------------------------------------------------------------------
(* DedupSpec: deduplicate_gdf on a frame, and then on its own result *)

MaxLen == 4

(* Boxes 18 wide and 4 high.  Shifted by one unit two of them have an IoU of
   17/19, shifted by two units an IoU of 16/20, which is the default
   threshold itself.  One box is far from the others, one has no area, and
   one is the first box under the other class. *)
BoxUniverse ==
    { Det(CHECKER_P1_CLASS, 10, 10, 18, 4),
      Det(CHECKER_P1_CLASS, 11, 10, 18, 4),
      Det(CHECKER_P1_CLASS, 12, 10, 18, 4),
      Det(CHECKER_P1_CLASS, 40, 10, 18, 4),
      Det(CHECKER_P1_CLASS, 10, 10, 0, 0),
      Det(CHECKER_P2_CLASS, 10, 10, 18, 4) }

Thresholds == { DefaultThreshold, <<1, 2>> }

DedupInit ==
    /\ pc = "dedup"
    /\ gdf \in { parse_yolo_predictions(f) :
                   f \in UNION { [1..n -> BoxUniverse] : n \in 0..MaxLen } }
    /\ iou_threshold \in Thresholds
    /\ keep = Idle /\ result = Idle /\ result2 = Idle
    /\ FrameIdle /\ BatchIdle

Deduplicate ==
    /\ pc = "dedup"
    /\ keep' = DedupKeep(gdf, iou_threshold)
    /\ result' = deduplicate_gdf(gdf, iou_threshold)
    /\ pc' = "deduped"
    /\ UNCHANGED <<gdf, iou_threshold, result2, frameVars, batchVars>>

DeduplicateAgain ==
    /\ pc = "deduped"
    /\ result2' = deduplicate_gdf(result, iou_threshold)
    /\ pc' = "again"
    /\ UNCHANGED <<gdf, iou_threshold, keep, result, frameVars, batchVars>>

DedupNext == Deduplicate \/ DeduplicateAgain

DedupSpec == DedupInit /\ [][DedupNext]_vars

Deduped == pc \in {"deduped", "again"}

KeptSet == {keep[k] : k \in 1..Len(keep)}

Duplicates(i, j) == IouExceeds(gdf[i].geometry, gdf[j].geometry, iou_threshold)

(* C3: the result is the subsequence of the input, in its order, of the rows
   whose IoU with every earlier kept row is at most the threshold: a row is
   dropped only if its IoU with an earlier kept row exceeds the threshold, the
   first row is kept, the result is no longer than the input, an empty input
   gives an empty result, and rows that are all at or below the threshold with
   each other are all kept. *)
C3_GreedySubsequence ==
    Deduped =>
        /\ \A k \in 1..Len(keep) : keep[k] \in 1..Len(gdf)
        /\ \A k \in 1..(Len(keep) - 1) : keep[k] < keep[k + 1]
        /\ result = [k \in 1..Len(keep) |-> gdf[keep[k]]]
        /\ \A i \in 1..Len(gdf) :
              i \in KeptSet <=> \A k \in KeptSet : k < i => ~Duplicates(k, i)
        /\ Len(result) <= Len(gdf)
        /\ gdf = <<>> => result = <<>>
        /\ gdf # <<>> => 1 \in KeptSet
        /\ (\A i, j \in 1..Len(gdf) : i < j => ~Duplicates(i, j)) => result = gdf

(* three boxes in a chain under the default threshold: the second is a
   duplicate of the first, the third of the second but not of the first (its
   IoU with the first is the threshold itself), and the first and third are
   kept *)
C3_Witness ==
    /\ Deduped
    /\ iou_threshold = DefaultThreshold
    /\ Len(gdf) = 3
    /\ Duplicates(1, 2) /\ Duplicates(2, 3) /\ ~Duplicates(1, 3)
    /\ IntersectionArea(gdf[1].geometry, gdf[3].geometry) * 5
           = 4 * UnionArea(gdf[1].geometry, gdf[3].geometry)
    /\ keep = <<1, 3>>

(* C4: deduplicating the result of a deduplication, under the same
   threshold, gives that result again. *)
C4_Idempotent == pc = "again" => result2 = result

(* a frame of four rows of which two are dropped, deduplicated twice *)
C4_Witness ==
    /\ pc = "again"
    /\ Len(gdf) = 4 /\ Len(result) = 2
    /\ result2 = result

---------------------------------------------------------------------------
(* SynthSpec: parse_single_prediction on a synthetic frame of two boards
   that do not overlap and one checker at the nominal centre of each of the
   24 positions *)

MaxFlipped == 2

(* the frames differ in the size of the boards, the gap between them, the
   size of the checkers and the order of the lines *)
SynthVariants ==
    { [bw |-> 12, bh |-> 8,  gap |-> 2, size |-> 1, boards_first |-> TRUE],
      [bw |-> 12, bh |-> 8,  gap |-> 0, size |-> 2, boards_first |-> FALSE],
      [bw |-> 24, bh |-> 12, gap |-> 4, size |-> 3, boards_first |-> TRUE],
      [bw |-> 36, bh |-> 16, gap |-> 0, size |-> 5, boards_first |-> FALSE] }

(* section 4.5 of the specification: the board and local position of a
   canonical position *)
NominalBoard(p) == IF p <= 6 \/ p >= 19 THEN 1 ELSE 0
NominalLocal(p) == IF p <= 6 THEN p ELSE IF p <= 18 THEN p - 6 ELSE p - 12

(* section 4.4: LOWER column i is local position 6 - i, UPPER column i is
   local position 7 + i *)
NominalHalf(l) == IF l <= 6 THEN "LOWER" ELSE "UPPER"
NominalColumn(l) == IF l <= 6 THEN 6 - l ELSE l - 7

SynthBoard(v, b) ==
    Det(BOARD_CLASS, b * (v.bw + v.gap) + v.bw \div 2, v.bh \div 2, v.bw, v.bh)

(* the checker of canonical position p: x_center at (i + 0.5)/6 of the
   board's width, y_center in the middle of the half *)
SynthChecker(v, p, c) ==
    LET l == NominalLocal(p)
        left == NominalBoard(p) * (v.bw + v.gap)
    IN  Det(c, left + (2 * NominalColumn(l) + 1) * (v.bw \div 12),
            IF NominalHalf(l) = "LOWER" THEN 3 * (v.bh \div 4) ELSE v.bh \div 4,
            v.size, v.size)

SynthFile(v, clas) ==
    LET bs == <<SynthBoard(v, 1), SynthBoard(v, 0)>>
        cs == [p \in 1..24 |-> SynthChecker(v, p, clas[p])]
    IN  IF v.boards_first THEN bs \o cs ELSE cs \o bs

RECURSIVE SubsetsUpTo(_)
SubsetsUpTo(k) ==
    IF k = 0 THEN {{}}
    ELSE LET prev == SubsetsUpTo(k - 1)
         IN  prev \cup {S \cup {p} : S \in prev, p \in 1..24}

(* every position of one class but for at most MaxFlipped positions *)
SynthClasses ==
    { [p \in 1..24 |-> IF p \in S THEN c[1] ELSE c[2]] :
        S \in SubsetsUpTo(MaxFlipped),
        c \in {<<CHECKER_P1_CLASS, CHECKER_P2_CLASS>>,
               <<CHECKER_P2_CLASS, CHECKER_P1_CLASS>>} }

SynthInit ==
    /\ pc = "start"
    /\ synth_clas \in SynthClasses
    /\ predictions \in { parse_yolo_predictions(f) :
                           f \in { SynthFile(v, synth_clas) : v \in SynthVariants } }
    /\ boards = Idle /\ projected = Idle
    /\ state_board_1 = Idle /\ state_board_2 = Idle /\ board_state = Idle
    /\ DedupIdle /\ BatchIdle

(* parse_single_prediction, lines 204-213, whatever the outcome *)
ParseFile ==
    /\ pc = "start"
    /\ board_state' = BoardStateOf(predictions)
    /\ pc' = "done"
    /\ UNCHANGED <<predictions, boards, projected, state_board_1, state_board_2,
                   synth_clas, dedupVars, batchVars>>

SynthSpec == SynthInit /\ [][ParseFile]_vars

(* C6: the frame of two boards that do not overlap and one checker of a
   known class at the nominal centre of each of the 24 positions is
   reconstructed as VALID, with Point_p = +1 where the checker at p is
   CHECKER_P2 and -1 where it is CHECKER_P1. *)
C6_EndToEnd ==
    Done =>
        /\ board_state.status = "VALID"
        /\ \A p \in 1..24 :
              board_state.points[p] =
                  IF synth_clas[p] = CHECKER_P2_CLASS THEN 1 ELSE -1

(* a synthetic frame with the checkers of Point_1 and Point_19 of one class
   and all others of the other class, reconstructed *)
C6_Witness ==
    /\ Done
    /\ synth_clas[1] = CHECKER_P1_CLASS /\ synth_clas[19] = CHECKER_P1_CLASS
    /\ synth_clas[6] = CHECKER_P2_CLASS /\ synth_clas[24] = CHECKER_P2_CLASS
    /\ board_state.status = "VALID"
    /\ board_state.points[1] = -1 /\ board_state.points[19] = -1
    /\ board_state.points[6] = 1 /\ board_state.points[24] = 1

---------------------------------------------------------------------------
(* BatchSpec: main on a directory of prediction files.  The files of the
   directory have distinct stems, so that each has an output file of its
   own; a frame is known by its position in the iteration. *)

MaxFrames == 3

(* a frame with a checker on the left board, one without boards, one with
   two boards and no checker, one with a checker on the right board *)
BatchFiles ==
    { <<BoardRight, BoardLeft, Det(CHECKER_P1_CLASS, 1, 8, 2, 2)>>,
      <<Det(CHECKER_P1_CLASS, 1, 8, 2, 2)>>,
      <<BoardLeft, BoardRight>>,
      <<BoardLeft, Det(CHECKER_P2_CLASS, 25, 2, 2, 2), BoardRight>> }

(* a variant that writes nothing for a frame it could not parse *)
WriteOutputIfValid(outs, i, record) ==
    IF record.status = "VALID"
    THEN [outs EXCEPT ![i] = Append(@, record)]
    ELSE outs

(* lines 212-213: the record is written to the frame's output file *)
WriteOutput(outs, i, record) == [outs EXCEPT ![i] = Append(@, record)]

BatchInit ==
    /\ pc = "iterdir"
    /\ dir \in UNION { [1..n -> BatchFiles] : n \in 0..MaxFrames }
    /\ next = 1
    /\ outputs = [i \in 1..Len(dir) |-> <<>>]
    /\ FrameIdle /\ DedupIdle

(* lines 222-224: one turn of the loop *)
ProcessNextFrame ==
    /\ pc = "iterdir"
    /\ next <= Len(dir)
    /\ \E record \in {parse_single_prediction(dir[next])} :
          outputs' = WriteOutput(outputs, next, record)
    /\ next' = next + 1
    /\ UNCHANGED <<pc, dir, frameVars, dedupVars>>

(* the iteration is exhausted *)
EndOfDirectory ==
    /\ pc = "iterdir"
    /\ next > Len(dir)
    /\ pc' = "done"
    /\ UNCHANGED <<dir, next, outputs, frameVars, dedupVars>>

BatchNext == ProcessNextFrame \/ EndOfDirectory

(* the script runs on until it ends: nothing suspends it *)
BatchSpec == BatchInit /\ [][BatchNext]_vars /\ WF_vars(BatchNext)

AllWrittenOnce ==
    /\ \A i \in 1..Len(dir) :
          /\ Len(outputs[i]) = 1
          /\ outputs[i][1].status \in {"VALID", "UNPARSEABLE"}
    /\ \A i, j \in 1..Len(dir) : dir[i] = dir[j] => outputs[i] = outputs[j]

(* C7: in directory mode the run ends with exactly one record written for
   every frame, also for the frames that follow an UNPARSEABLE one, and two
   frames with the same detections get the same record wherever they stand
   in the directory. *)
C7_EveryFrameWrittenOnce ==
    /\ <>(pc = "done")
    /\ [](pc = "done" => AllWrittenOnce)

(* a directory of three frames: the first UNPARSEABLE, the second VALID, the
   third the first again; all three written *)
C7_Witness ==
    /\ pc = "done"
    /\ Len(dir) = 3
    /\ dir[1] = dir[3] /\ dir[1] # dir[2]
    /\ outputs[1] = <<[status |-> "UNPARSEABLE"]>>
    /\ Len(outputs[2]) = 1 /\ outputs[2][1].status = "VALID"
    /\ outputs[3] = outputs[1]

===========================================================================
